---- MODULE Spec2Model ----
(***************************************************************************)
(* Model of the tenant identity domain of iddd_samples:                    *)
(*   iddd_common/src/assertion.rs                 the assertion macros     *)
(*   domain/identity/tenant/invitation.rs         Invitation               *)
(*   domain/identity/tenant/tenant.rs             Tenant                   *)
(*   domain/identity/tenant/tenant_id.rs          TenantId                 *)
(*                                                                         *)
(* A Rust &str / String is modelled as the sequence of its bytes, each     *)
(* byte written as a one-character TLA+ string, so that Len is str::len(), *)
(* equality is ==, and s[i] is the i-th byte.  Option<T> is << >> for None *)
(* and <<v>> for Some(v).  An error message (the String carried by         *)
(* ArgumentError) is a TLA+ string built the way format! builds it.        *)
(***************************************************************************)
EXTENDS Integers, Sequences, FiniteSets, TLC

VARIABLES
    now,          \* the instant Utc::now() returns
    invitation,   \* Option<Invitation>: the Invitation the caller holds
    inv_args,     \* the arguments the held Invitation was constructed with
    inv_last,     \* the last call on Invitation: operation, arguments, return value, state before
    tenant,       \* Option<Tenant>: the Tenant the caller holds
    tenant_last,  \* the last call on Tenant
    tenant_id,    \* Option<TenantId>: the TenantId the caller holds
    tid_last,     \* the last call on TenantId
    check_last    \* the last operation guarded by a check of the assertion layer

vars == <<now, invitation, inv_args, inv_last, tenant, tenant_last, tenant_id, tid_last,
          check_last>>

----------------------------------------------------------------------------
(* Bounds of the model *)

\* instants are 0..MaxInstant; DateTime::<Utc>::MIN_UTC is 0 and MAX_UTC is MaxInstant
MaxInstant == 3
\* how far past a maximum length the supplied strings go
MaxOver == 1
\* the random sources of Uuid::new_v4 are seeds 0..MaxSeed
MaxSeed == 3
\* the numbers handed to the checks are 0..MaxArg
MaxArg == 2

(* Program constants *)

INVITATION_ID_MIN == 1
INVITATION_ID_MAX == 36
INVITATION_DESCRIPTION_MAX == 100
TENANT_NAME_MAX == 100
TENANT_DESCRIPTION_MAX == 100
TENANT_ID_LEN == 36

----------------------------------------------------------------------------
(* Option and Result *)

None == << >>
Some(v) == <<v>>
IsSome(o) == o # << >>
Unwrap(o) == o[1]

Unit == "()"
Ok(v) == [ok |-> TRUE, kind |-> "Ok", msg |-> "", val |-> v]

\* arg_error!: Err(ArgumentError(format!(..)))
arg_error(msg) == [ok |-> FALSE, kind |-> "ArgumentError", msg |-> msg, val |-> Unit]

\* `check?; rest`: the macro's `return arg_error!(..)` leaves the enclosing
\* function with the failure, and nothing after it runs
Then(check, rest) == IF check.ok THEN rest ELSE check

----------------------------------------------------------------------------
(* iddd_common assertion macros *)

is_empty(s) == Len(s) = 0

assert_argument_not_empty(actual, subject) ==
    IF is_empty(actual)
    THEN arg_error("The " \o subject \o " is required")
    ELSE Ok(Unit)

\* the arm with a minimum and a maximum
assert_argument_length_between(expected, minimum, maximum, subject) ==
    IF Len(expected) < minimum \/ Len(expected) > maximum
    THEN IF minimum = maximum
         THEN arg_error("The " \o subject \o " must be " \o ToString(minimum)
                        \o " characters long")
         ELSE arg_error("The " \o subject \o " must be long between "
                        \o ToString(minimum) \o " and " \o ToString(maximum)
                        \o " characters")
    ELSE Ok(Unit)

\* the arm with a maximum only
assert_argument_length_max(expected, maximum, subject) ==
    IF Len(expected) > maximum
    THEN arg_error("The " \o subject \o " must be " \o ToString(maximum)
                   \o " characters or less")
    ELSE Ok(Unit)

assert_true(actual, msg) ==
    IF ~actual THEN arg_error(msg) ELSE Ok(Unit)

assert_argument_equals(actual, expected, subject) ==
    IF expected # actual
    THEN arg_error("The " \o subject \o " must be equal to " \o ToString(expected))
    ELSE Ok(Unit)

assert_argument_false(actual, subject) ==
    IF actual THEN arg_error("The " \o subject \o " must be false") ELSE Ok(Unit)

assert_argument_not_equals(actual, expected, subject) ==
    IF expected = actual
    THEN arg_error("The " \o subject \o " must be different from " \o ToString(actual)
                   \o ".")
    ELSE Ok(Unit)

assert_argument_range(expected, minimum, maximum, subject) ==
    IF expected < minimum \/ expected > maximum
    THEN arg_error("The " \o subject \o " must be between " \o ToString(minimum)
                   \o " and " \o ToString(maximum) \o ".")
    ELSE Ok(Unit)

assert_argument_true(actual, subject) ==
    IF ~actual THEN arg_error("The " \o subject \o " must be true") ELSE Ok(Unit)

\* state_error!: Err(StateError(format!(..)))
state_error(msg) == [ok |-> FALSE, kind |-> "StateError", msg |-> msg, val |-> Unit]

(* What a check does to the operation that holds it: the operation goes on to
   its next statement, or returns a value at once. *)
Continue == [flow |-> "continue"]
Return(r) == [flow |-> "return", val |-> r]

\* a check of the form `{ if .. { return arg_error!(..); } Ok(()) }?`
Returning(check) == IF check.ok THEN Continue ELSE Return(check)

\* a statement `Err(..);`: the value is built and dropped, the operation goes on
Dropped(v) == Continue

\* assert_not_state!: `if $actual { state_error!(..); }`
assert_not_state(actual, msg) ==
    IF actual THEN Dropped(state_error(msg)) ELSE Continue

\* assert_state!: `if !$actual { state_error!(..); }`
assert_state(actual, msg) ==
    IF ~actual THEN Dropped(state_error(msg)) ELSE Continue

----------------------------------------------------------------------------
(* The earlier assertion macros, common/src/assertion.rs: every one is
   `if <violated> { arg_error!(..); }` or `if <violated> { state_error!(..); }` *)

common_assert_argument_equals(expected, actual, msg) ==
    IF expected # actual THEN Dropped(arg_error(msg)) ELSE Continue

common_assert_argument_false(actual, msg) ==
    IF actual THEN Dropped(arg_error(msg)) ELSE Continue

common_assert_argument_length_max(expected, maximum, msg) ==
    IF Len(expected) > maximum THEN Dropped(arg_error(msg)) ELSE Continue

common_assert_argument_length_between(expected, minimum, maximum, msg) ==
    IF Len(expected) < minimum \/ Len(expected) > maximum
    THEN Dropped(arg_error(msg)) ELSE Continue

common_assert_argument_not_empty(actual, msg) ==
    IF is_empty(actual) THEN Dropped(arg_error(msg)) ELSE Continue

common_assert_argument_not_equals(expected, actual, msg) ==
    IF expected = actual THEN Dropped(arg_error(msg)) ELSE Continue

common_assert_argument_range(expected, minimum, maximum, msg) ==
    IF expected < minimum \/ expected > maximum
    THEN Dropped(arg_error(msg)) ELSE Continue

common_assert_argument_true(actual, msg) ==
    IF ~actual THEN Dropped(arg_error(msg)) ELSE Continue

common_assert_not_state(actual, msg) ==
    IF actual THEN Dropped(state_error(msg)) ELSE Continue

common_assert_state(actual, msg) ==
    IF ~actual THEN Dropped(state_error(msg)) ELSE Continue

----------------------------------------------------------------------------
(* Strings supplied by callers *)

Repeat(c, n) == [i \in 1..n |-> c]

\* lengths around the limits of a field whose maximum is max
LengthsAround(max) == {0, 1} \cup (max .. max + MaxOver)

StringsAround(max) == {Repeat(c, n) : c \in {"a", "b"}, n \in LengthsAround(max)}

Instants == 0 .. MaxInstant
MIN_UTC == 0
MAX_UTC == MaxInstant

----------------------------------------------------------------------------
(* Invitation *)

Invitation(id, desc, s, u) ==
    [invitation_id |-> id, description |-> desc, starting_on |-> s, until |-> u]

\* mutant: the description is checked before the invitation_id
Invitation_new_description_first(invitation_id, description) ==
    Then(assert_argument_not_empty(description, "description"),
    Then(assert_argument_length_max(description, INVITATION_DESCRIPTION_MAX,
                                    "description"),
    Then(assert_argument_not_empty(invitation_id, "invitation_id"),
    Then(assert_argument_length_between(invitation_id, INVITATION_ID_MIN,
                                        INVITATION_ID_MAX, "invitation_id"),
         Ok(Invitation(invitation_id, description, None, None))))))

Invitation_new(invitation_id, description) ==
    Then(assert_argument_not_empty(invitation_id, "invitation_id"),
    Then(assert_argument_length_between(invitation_id, INVITATION_ID_MIN,
                                        INVITATION_ID_MAX, "invitation_id"),
    Then(assert_argument_not_empty(description, "description"),
    Then(assert_argument_length_max(description, INVITATION_DESCRIPTION_MAX,
                                    "description"),
         Ok(Invitation(invitation_id, description, None, None))))))

\* mutant: the end of the interval is exclusive
Invitation_is_available_exclusive_end(self, t) ==
    /\ IF self.starting_on = None THEN TRUE ELSE t >= Unwrap(self.starting_on)
    /\ IF self.until = None THEN TRUE ELSE t < Unwrap(self.until)

\* is_available with Utc::now() = t
Invitation_is_available(self, t) ==
    /\ IF self.starting_on = None THEN TRUE ELSE t >= Unwrap(self.starting_on)
    /\ IF self.until = None THEN TRUE ELSE t <= Unwrap(self.until)

\* mutant: only the invitation_id identifies
Invitation_is_identified_by_id_only(self, identifier) ==
    self.invitation_id = identifier

Invitation_is_identified_by(self, identifier) ==
    self.invitation_id = identifier \/ self.description = identifier

\* mutant: until is not cleared
Invitation_redefine_as_open_ended_keeps_until(self) ==
    [self EXCEPT !.starting_on = None]

\* the Invitation after redefine_as_open_ended
Invitation_redefine_as_open_ended(self) ==
    [self EXCEPT !.starting_on = None, !.until = None]

\* mutant: the order of the bounds is not checked
Invitation_redefine_as_unchecked(self, starting_on, until) ==
    Ok([self EXCEPT !.starting_on = Some(starting_on), !.until = Some(until)])

\* redefine_as: the Result, carrying the Invitation after the call when Ok
Invitation_redefine_as(self, starting_on, until) ==
    Then(assert_true(starting_on <= until, "starting_on must occurs before until"),
         Ok([self EXCEPT !.starting_on = Some(starting_on), !.until = Some(until)]))

InvitationIds == StringsAround(INVITATION_ID_MAX)
InvitationDescriptions == StringsAround(INVITATION_DESCRIPTION_MAX)
Identifiers == InvitationIds \cup InvitationDescriptions \cup {<<"m">>}

NoCall == [op |-> "none"]

\* let actual = Invitation::new(id, desc): the model follows one Invitation from
\* its construction on; a failed construction leaves no Invitation
New(id, desc) ==
    LET r == Invitation_new(id, desc) IN
    /\ invitation = None
    /\ invitation' = IF r.ok THEN Some(r.val) ELSE None
    /\ inv_args' = IF r.ok THEN Some([invitation_id |-> id, description |-> desc])
                           ELSE None
    /\ inv_last' = [op |-> "new", invitation_id |-> id, description |-> desc,
                    ret |-> r, before |-> invitation]
    /\ UNCHANGED <<now, tenant, tenant_last, tenant_id, tid_last, check_last>>

IsAvailable ==
    /\ IsSome(invitation)
    /\ inv_last' = [op |-> "is_available", now |-> now,
                    ret |-> Invitation_is_available(Unwrap(invitation), now),
                    before |-> invitation]
    /\ UNCHANGED <<now, invitation, inv_args, tenant, tenant_last, tenant_id, tid_last, check_last>>

IsIdentifiedBy(x) ==
    /\ IsSome(invitation)
    /\ inv_last' = [op |-> "is_identified_by", identifier |-> x,
                    ret |-> Invitation_is_identified_by(Unwrap(invitation), x),
                    before |-> invitation]
    /\ UNCHANGED <<now, invitation, inv_args, tenant, tenant_last, tenant_id, tid_last, check_last>>

RedefineAsOpenEnded ==
    /\ IsSome(invitation)
    /\ invitation' = Some(Invitation_redefine_as_open_ended(Unwrap(invitation)))
    /\ inv_last' = [op |-> "redefine_as_open_ended", ret |-> Unit, before |-> invitation]
    /\ UNCHANGED <<now, inv_args, tenant, tenant_last, tenant_id, tid_last, check_last>>

RedefineAs(s, u) ==
    LET r == Invitation_redefine_as(Unwrap(invitation), s, u) IN
    /\ IsSome(invitation)
    /\ invitation' = IF r.ok THEN Some(r.val) ELSE invitation
    /\ inv_last' = [op |-> "redefine_as", starting_on |-> s, until |-> u,
                    ret |-> r, before |-> invitation]
    /\ UNCHANGED <<now, inv_args, tenant, tenant_last, tenant_id, tid_last, check_last>>

\* time passes between calls
Tick ==
    /\ now < MaxInstant
    /\ now' = now + 1
    /\ UNCHANGED <<invitation, inv_args, inv_last, tenant, tenant_last, tenant_id, tid_last,
                   check_last>>

----------------------------------------------------------------------------
(* TenantId *)

HexLower == <<"0", "1", "2", "3", "4", "5", "6", "7", "8", "9", "a", "b", "c", "d", "e", "f">>
HexDigits == {HexLower[i] : i \in 1..16} \cup {"A", "B", "C", "D", "E", "F"}

\* the 16 bytes the random source hands to Uuid::new_v4
RandomBytes(seed) == [i \in 1..16 |-> (seed * 89 + i * (seed + 7) * 13) % 256]

\* Uuid::new_v4: random bytes with the version (4) and the variant (10xx) set
Uuid_new_v4(seed) ==
    LET b == RandomBytes(seed) IN
    [b EXCEPT ![7] = (b[7] % 16) + 64, ![9] = (b[9] % 64) + 128]

HexByte(b) == <<HexLower[(b \div 16) + 1], HexLower[(b % 16) + 1]>>

RECURSIVE HexRange(_, _, _)
HexRange(bytes, i, j) ==
    IF i > j THEN << >> ELSE HexByte(bytes[i]) \o HexRange(bytes, i + 1, j)

\* mutant: the simple form, 32 digits with no hyphens
Uuid_to_string_simple(bytes) == HexRange(bytes, 1, 16)

\* Uuid's Display: lower-case hyphenated, 8-4-4-4-12
Uuid_to_string(bytes) ==
    HexRange(bytes, 1, 4) \o <<"-">> \o HexRange(bytes, 5, 6) \o <<"-">>
        \o HexRange(bytes, 7, 8) \o <<"-">> \o HexRange(bytes, 9, 10) \o <<"-">>
        \o HexRange(bytes, 11, 16)

IsSimple(s) == Len(s) = 32 /\ \A i \in 1..32 : s[i] \in HexDigits

IsHyphenated(s) ==
    /\ Len(s) = 36
    /\ \A i \in 1..36 : IF i \in {9, 14, 19, 24} THEN s[i] = "-" ELSE s[i] \in HexDigits

UrnPrefix == <<"u", "r", "n", ":", "u", "u", "i", "d", ":">>

\* Uuid::parse_str(value).is_ok(): the simple, hyphenated, braced and urn forms
Uuid_parse_str(value) ==
    CASE Len(value) = 32 -> IsSimple(value)
      [] Len(value) = 36 -> IsHyphenated(value)
      [] Len(value) = 38 -> /\ value[1] = "{" /\ value[38] = "}"
                            /\ IsHyphenated(SubSeq(value, 2, 37))
      [] Len(value) = 45 -> /\ SubSeq(value, 1, 9) = UrnPrefix
                            /\ IsHyphenated(SubSeq(value, 10, 45))
      [] OTHER -> FALSE

TenantId(value) == [value |-> value]

\* mutant: the length is checked before the emptiness
TenantId_new_length_first(value) ==
    Then(assert_argument_length_between(value, TENANT_ID_LEN, TENANT_ID_LEN, "value"),
    Then(assert_argument_not_empty(value, "value"),
         IF ~Uuid_parse_str(value)
         THEN arg_error("The value as an invalid format.")
         ELSE Ok(TenantId(value))))

\* mutant: the value is not parsed as a unique identifier
TenantId_new_unparsed(value) ==
    Then(assert_argument_not_empty(value, "value"),
    Then(assert_argument_length_between(value, TENANT_ID_LEN, TENANT_ID_LEN, "value"),
         Ok(TenantId(value))))

TenantId_new(value) ==
    Then(assert_argument_not_empty(value, "value"),
    Then(assert_argument_length_between(value, TENANT_ID_LEN, TENANT_ID_LEN, "value"),
         IF ~Uuid_parse_str(value)
         THEN arg_error("The value as an invalid format.")
         ELSE Ok(TenantId(value))))

TenantId_random(seed) == TenantId(Uuid_to_string(Uuid_new_v4(seed)))

TenantId_value(self) == self.value

\* the values of the tests
ValidValue ==
    <<"1", "2", "3", "4", "5", "6", "7", "8", "-", "1", "2", "3", "4", "-", "1", "2",
    "3", "4", "-", "1", "2", "3", "4", "-", "1", "2", "3", "4", "5", "6", "7", "8",
    "9", "0", "1", "2">>

InvalidValue ==
    <<"1", "2", "3", "4", "5", "6", "7", "8", "y", "1", "2", "3", "4", "r", "1", "2",
    "3", "4", "e", "1", "2", "3", "4", "p", "1", "2", "3", "4", "5", "6", "7", "8",
    "9", "0", "1", "2">>

LongValue ==
    <<"1", "2", "3", "4", "5", "6", "7", "8", "9", "0", "1", "2", "3", "4", "5", "6",
    "7", "8", "9", "0", "1", "2", "3", "4", "5", "6", "7", "8", "9", "0", "1", "2">>

\* ValidValue with one byte replaced
Replaced(s, p, c) == [s EXCEPT ![p] = c]

TenantIdValues ==
    {Repeat("a", n) : n \in 0 .. (TENANT_ID_LEN + MaxOver)}
        \cup {Replaced(ValidValue, p, c) : p \in 1..Len(ValidValue), c \in {"g", "-", "F"}}
        \cup {ValidValue, InvalidValue, LongValue}

Seeds == 0 .. MaxSeed

\* let actual = TenantId::new(value)
TidNew(value) ==
    LET r == TenantId_new(value) IN
    /\ tenant_id' = IF r.ok THEN Some(r.val) ELSE None
    /\ tid_last' = [op |-> "new", from |-> "caller", value |-> value, ret |-> r,
                    before |-> None]
    /\ UNCHANGED <<now, invitation, inv_args, inv_last, tenant, tenant_last, check_last>>

\* let actual = TenantId::random()
TidRandom(seed) ==
    /\ tenant_id' = Some(TenantId_random(seed))
    /\ tid_last' = [op |-> "random", from |-> "caller", seed |-> seed,
                    ret |-> TenantId_random(seed), before |-> None]
    /\ UNCHANGED <<now, invitation, inv_args, inv_last, tenant, tenant_last, check_last>>

\* let parsed = TenantId::new(actual.value()), of the TenantId the caller holds;
\* `from` is the operation that made the held TenantId, `before` that TenantId
TidReparse ==
    LET value == TenantId_value(Unwrap(tenant_id))
        r == TenantId_new(value)
    IN  /\ IsSome(tenant_id)
        /\ tenant_id' = IF r.ok THEN Some(r.val) ELSE None
        /\ tid_last' = [op |-> "new", from |-> tid_last.op, value |-> value, ret |-> r,
                        before |-> tenant_id]
        /\ UNCHANGED <<now, invitation, inv_args, inv_last, tenant, tenant_last, check_last>>

----------------------------------------------------------------------------
(* Tenant *)

\* mutant: an empty description is stored as Some("")
Tenant_new_keeps_empty_description(tid, name, description, active) ==
    Then(assert_argument_not_empty(name, "name"),
    Then(assert_argument_length_max(name, TENANT_NAME_MAX, "name"),
    Then(IF IsSome(description)
         THEN assert_argument_length_max(Unwrap(description), TENANT_DESCRIPTION_MAX,
                                         "description")
         ELSE Ok(Unit),
         Ok([tenant_id |-> tid, name |-> name, description |-> description,
             active |-> active, invitations |-> << >>]))))

Tenant_new(tid, name, description, active) ==
    Then(assert_argument_not_empty(name, "name"),
    Then(assert_argument_length_max(name, TENANT_NAME_MAX, "name"),
    Then(IF IsSome(description)
         THEN assert_argument_length_max(Unwrap(description), TENANT_DESCRIPTION_MAX,
                                         "description")
         ELSE Ok(Unit),
         Ok([tenant_id |-> tid,
             name |-> name,
             \* description.filter(|s| !s.is_empty())
             description |-> IF IsSome(description) /\ ~is_empty(Unwrap(description))
                             THEN description ELSE None,
             active |-> active,
             invitations |-> << >>]))))

Tenant_active(self) == self.active

Tenant_activate(self) == [self EXCEPT !.active = TRUE]

\* mutant: the flag is flipped
Tenant_deactivate_flips(self) == [self EXCEPT !.active = ~self.active]

Tenant_deactivate(self) == [self EXCEPT !.active = FALSE]

TenantIds == {TenantId_random(seed) : seed \in Seeds}
TenantNames == StringsAround(TENANT_NAME_MAX)
TenantDescriptions == {None} \cup {Some(d) : d \in StringsAround(TENANT_DESCRIPTION_MAX)}

\* let result = Tenant::new(&tid, name, description, active): the model follows
\* one Tenant from its construction on; a failed construction leaves no Tenant
TenantNew(tid, name, description, active) ==
    LET r == Tenant_new(tid, name, description, active) IN
    /\ tenant = None
    /\ tenant' = IF r.ok THEN Some(r.val) ELSE None
    /\ tenant_last' = [op |-> "new", tenant_id |-> tid, name |-> name,
                       description |-> description, active |-> active, ret |-> r,
                       before |-> tenant]
    /\ UNCHANGED <<now, invitation, inv_args, inv_last, tenant_id, tid_last, check_last>>

Activate ==
    /\ IsSome(tenant)
    /\ tenant' = Some(Tenant_activate(Unwrap(tenant)))
    /\ tenant_last' = [op |-> "activate", ret |-> Unit, before |-> tenant]
    /\ UNCHANGED <<now, invitation, inv_args, inv_last, tenant_id, tid_last, check_last>>

Deactivate ==
    /\ IsSome(tenant)
    /\ tenant' = Some(Tenant_deactivate(Unwrap(tenant)))
    /\ tenant_last' = [op |-> "deactivate", ret |-> Unit, before |-> tenant]
    /\ UNCHANGED <<now, invitation, inv_args, inv_last, tenant_id, tid_last, check_last>>

----------------------------------------------------------------------------
(* Operations guarded by a check of the assertion layer *)

Numbers == 0 .. MaxArg
Texts == {Repeat("a", n) : n \in 0 .. (MaxArg + 1)}

\* the label and the messages the caller hands to the macros
Subject == "subject"
CallerMessage == "starting_on must occurs before until"
StateMessage == "The tenant is not active"

\* the uses of the argument checks: the macro and its operands
ArgumentChecks ==
    {[macro |-> m, x |-> x, y |-> y] :
        m \in {"assert_argument_equals", "assert_argument_not_equals"},
        x \in Numbers, y \in Numbers}
    \cup {[macro |-> m, b |-> b] :
        m \in {"assert_argument_false", "assert_argument_true", "assert_true"},
        b \in BOOLEAN}
    \cup {[macro |-> "assert_argument_length", s |-> t, x |-> x, y |-> y] :
        t \in Texts, x \in Numbers, y \in Numbers}
    \cup {[macro |-> "assert_argument_length", s |-> t, x |-> x] :
        t \in Texts, x \in Numbers}
    \cup {[macro |-> "assert_argument_not_empty", s |-> t] : t \in Texts}
    \cup {[macro |-> "assert_argument_range", x |-> x, y |-> y, z |-> z] :
        x \in Numbers, y \in Numbers, z \in Numbers}

\* the uses of the state checks
StateChecks ==
    {[macro |-> m, b |-> b] : m \in {"assert_state", "assert_not_state"}, b \in BOOLEAN}

\* the expansion of a use of an iddd_common argument check
iddd_common_argument_check(c) ==
    CASE c.macro = "assert_argument_equals" ->
             Returning(assert_argument_equals(c.x, c.y, Subject))
      [] c.macro = "assert_argument_not_equals" ->
             Returning(assert_argument_not_equals(c.x, c.y, Subject))
      [] c.macro = "assert_argument_false" ->
             Returning(assert_argument_false(c.b, Subject))
      [] c.macro = "assert_argument_true" ->
             Returning(assert_argument_true(c.b, Subject))
      [] c.macro = "assert_true" ->
             Returning(assert_true(c.b, CallerMessage))
      [] c.macro = "assert_argument_length" /\ "y" \in DOMAIN c ->
             Returning(assert_argument_length_between(c.s, c.x, c.y, Subject))
      [] c.macro = "assert_argument_length" /\ "y" \notin DOMAIN c ->
             Returning(assert_argument_length_max(c.s, c.x, Subject))
      [] c.macro = "assert_argument_not_empty" ->
             Returning(assert_argument_not_empty(c.s, Subject))
      [] c.macro = "assert_argument_range" ->
             Returning(assert_argument_range(c.x, c.y, c.z, Subject))

\* the expansion of a use of an iddd_common state check
iddd_common_state_check(c) ==
    CASE c.macro = "assert_state" -> assert_state(c.b, StateMessage)
      [] c.macro = "assert_not_state" -> assert_not_state(c.b, StateMessage)

\* the expansion of a use of a check of the earlier macros
common_check(c) ==
    CASE c.macro = "assert_argument_equals" ->
             common_assert_argument_equals(c.y, c.x, CallerMessage)
      [] c.macro = "assert_argument_not_equals" ->
             common_assert_argument_not_equals(c.y, c.x, CallerMessage)
      [] c.macro = "assert_argument_false" ->
             common_assert_argument_false(c.b, CallerMessage)
      [] c.macro = "assert_argument_true" ->
             common_assert_argument_true(c.b, CallerMessage)
      [] c.macro = "assert_argument_length" /\ "y" \in DOMAIN c ->
             common_assert_argument_length_between(c.s, c.x, c.y, CallerMessage)
      [] c.macro = "assert_argument_length" /\ "y" \notin DOMAIN c ->
             common_assert_argument_length_max(c.s, c.x, CallerMessage)
      [] c.macro = "assert_argument_not_empty" ->
             common_assert_argument_not_empty(c.s, CallerMessage)
      [] c.macro = "assert_argument_range" ->
             common_assert_argument_range(c.x, c.y, c.z, CallerMessage)
      [] c.macro = "assert_state" -> common_assert_state(c.b, StateMessage)
      [] c.macro = "assert_not_state" -> common_assert_not_state(c.b, StateMessage)

\* an operation of the shape of redefine_as: the check, then the assignments,
\* then Ok(()); ran_after tells whether the assignments ran
Enclosing(flow) ==
    IF flow.flow = "return"
    THEN [ret |-> flow.val, ran_after |-> FALSE]
    ELSE [ret |-> Ok(Unit), ran_after |-> TRUE]

\* an operation guarded by an iddd_common argument check is called
CheckArgument(c) ==
    LET done == Enclosing(iddd_common_argument_check(c)) IN
    /\ check_last' = [op |-> "check", crate |-> "iddd_common", check |-> c,
                      ret |-> done.ret, ran_after |-> done.ran_after]
    /\ UNCHANGED <<now, invitation, inv_args, inv_last, tenant, tenant_last, tenant_id,
                   tid_last>>

\* an operation guarded by an iddd_common state check is called
CheckState(c) ==
    LET done == Enclosing(iddd_common_state_check(c)) IN
    /\ check_last' = [op |-> "check", crate |-> "iddd_common", check |-> c,
                      ret |-> done.ret, ran_after |-> done.ran_after]
    /\ UNCHANGED <<now, invitation, inv_args, inv_last, tenant, tenant_last, tenant_id,
                   tid_last>>

\* the earlier macros have no assert_true
EarlierChecks == {c \in ArgumentChecks \cup StateChecks : c.macro # "assert_true"}

\* an operation guarded by one of the earlier macros is called
CheckEarlier(c) ==
    LET done == Enclosing(common_check(c)) IN
    /\ check_last' = [op |-> "check", crate |-> "common", check |-> c,
                      ret |-> done.ret, ran_after |-> done.ran_after]
    /\ UNCHANGED <<now, invitation, inv_args, inv_last, tenant, tenant_last, tenant_id,
                   tid_last>>

----------------------------------------------------------------------------
(* Specifications *)

Init ==
    /\ now = 0
    /\ invitation = None
    /\ inv_args = None
    /\ inv_last = NoCall
    /\ tenant = None
    /\ tenant_last = NoCall
    /\ tenant_id = None
    /\ tid_last = NoCall
    /\ check_last = NoCall

Next ==
    \/ \E id \in InvitationIds, desc \in InvitationDescriptions : New(id, desc)
    \/ IsAvailable
    \/ \E x \in Identifiers : IsIdentifiedBy(x)
    \/ RedefineAsOpenEnded
    \/ \E s \in Instants, u \in Instants : RedefineAs(s, u)
    \/ Tick

Spec == Init /\ [][Next]_vars

\* a caller that keeps using every operation of the Invitation
FairSpec ==
    /\ Spec
    /\ WF_vars(\E id \in InvitationIds, desc \in InvitationDescriptions : New(id, desc))
    /\ WF_vars(IsAvailable)
    /\ WF_vars(\E x \in Identifiers : IsIdentifiedBy(x))
    /\ WF_vars(RedefineAsOpenEnded)
    /\ WF_vars(\E s \in Instants, u \in Instants : RedefineAs(s, u))
    /\ WF_vars(Tick)

NextTenantId ==
    \/ \E value \in TenantIdValues : TidNew(value)
    \/ \E seed \in Seeds : TidRandom(seed)
    \/ TidReparse

SpecTenantId == Init /\ [][NextTenantId]_vars

NextTenant ==
    \/ \E tid \in TenantIds, name \in TenantNames, description \in TenantDescriptions,
          active \in BOOLEAN : TenantNew(tid, name, description, active)
    \/ Activate
    \/ Deactivate

SpecTenant == Init /\ [][NextTenant]_vars

NextAssertion ==
    \/ \E c \in ArgumentChecks : CheckArgument(c)
    \/ \E c \in StateChecks : CheckState(c)
    \/ \E c \in EarlierChecks : CheckEarlier(c)

SpecAssertion == Init /\ [][NextAssertion]_vars

----------------------------------------------------------------------------
(* Claims about Invitation *)

StartPresent == IsSome(invitation) /\ IsSome(Unwrap(invitation).starting_on)
UntilPresent == IsSome(invitation) /\ IsSome(Unwrap(invitation).until)

\* C1: whenever is_available() has returned, with now the instant it read, its
\* value is true exactly when (starting_on is absent or now >= starting_on) and
\* (until is absent or now <= until): true while validity is unbounded, false
\* when the interval lies strictly before or strictly after now, true when the
\* interval spans now (bounds inclusive).
C1_IsAvailableIsContainment ==
    inv_last.op = "is_available" =>
        LET inv == Unwrap(invitation)
            t == inv_last.now
            s == inv.starting_on
            u == inv.until
        IN  /\ inv_last.ret = TRUE <=>
                   /\ (s = None \/ t >= Unwrap(s))
                   /\ (u = None \/ t <= Unwrap(u))
            /\ (s = None /\ u = None) => inv_last.ret = TRUE
            /\ (s # None /\ u # None /\ Unwrap(u) < t) => inv_last.ret = FALSE
            /\ (s # None /\ u # None /\ Unwrap(s) > t) => inv_last.ret = FALSE
            /\ (s # None /\ u # None /\ Unwrap(s) <= t /\ t <= Unwrap(u))
                   => inv_last.ret = TRUE

\* is_available() answered true at the very instant `until`, with a start before it
C1_Witness ==
    /\ inv_last.op = "is_available"
    /\ StartPresent /\ UntilPresent
    /\ Unwrap(Unwrap(invitation).starting_on) < inv_last.now
    /\ Unwrap(Unwrap(invitation).until) = inv_last.now
    /\ inv_last.ret = TRUE

\* C2: a call redefine_as(starting_on, until) with starting_on > until returns an
\* Argument failure and leaves the stored bounds as they were; a call with
\* starting_on <= until succeeds and stores exactly the supplied pair; no
\* reachable Invitation has both bounds present with starting_on > until.
C2_RedefineAsOrdersBounds ==
    /\ inv_last.op = "redefine_as" =>
           IF inv_last.starting_on > inv_last.until
           THEN /\ ~inv_last.ret.ok
                /\ inv_last.ret.kind = "ArgumentError"
                /\ invitation = inv_last.before
           ELSE /\ inv_last.ret.ok
                /\ Unwrap(invitation).starting_on = Some(inv_last.starting_on)
                /\ Unwrap(invitation).until = Some(inv_last.until)
    /\ (StartPresent /\ UntilPresent) =>
           Unwrap(Unwrap(invitation).starting_on) <= Unwrap(Unwrap(invitation).until)

\* an inverted pair was refused on an Invitation that already had bounds
C2_Witness ==
    /\ inv_last.op = "redefine_as"
    /\ inv_last.starting_on > inv_last.until
    /\ ~inv_last.ret.ok
    /\ StartPresent /\ UntilPresent

\* exactly one of starting_on / until is present
HalfOpen == IsSome(invitation) /\ (StartPresent # UntilPresent)

\* C3: an Invitation reaches a validity with exactly one of starting_on / until
\* present (start-only or end-only) through new, redefine_as and
\* redefine_as_open_ended.
C3_HalfOpenIsReached == <>HalfOpen

\* what the operations do reach: both bounds absent, or both present
OpenEndedOrBounded == IsSome(invitation) => (StartPresent <=> UntilPresent)

\* C6: Invitation::new(invitation_id, description) succeeds exactly when
\* invitation_id has length 1..36 and description has length 1..100, and then the
\* Invitation holds exactly those two strings with starting_on and until absent;
\* otherwise it returns the Argument failure of the first violated check, in the
\* order invitation_id non-empty, invitation_id length, description non-empty,
\* description length, and no Invitation exists.
C6_NewValidatesInOrder ==
    inv_last.op = "new" =>
        LET id == inv_last.invitation_id
            desc == inv_last.description
            r == inv_last.ret
        IN  /\ r.ok <=> (Len(id) \in 1..36 /\ Len(desc) \in 1..100)
            /\ r.ok => invitation = Some([invitation_id |-> id, description |-> desc,
                                         starting_on |-> None, until |-> None])
            /\ ~r.ok =>
                   /\ invitation = None
                   /\ r.kind = "ArgumentError"
                   /\ r.msg =
                          IF Len(id) = 0 THEN "The invitation_id is required"
                          ELSE IF Len(id) > 36
                               THEN "The invitation_id must be long between 1 and 36 characters"
                          ELSE IF Len(desc) = 0 THEN "The description is required"
                          ELSE "The description must be 100 characters or less"

\* both arguments are wrong (identifier too long, description empty) and the
\* failure is the identifier's
C6_Witness ==
    /\ inv_last.op = "new"
    /\ Len(inv_last.invitation_id) > 36
    /\ Len(inv_last.description) = 0
    /\ inv_last.ret.msg = "The invitation_id must be long between 1 and 36 characters"
    /\ invitation = None

Unbounded == IsSome(invitation) /\ ~StartPresent /\ ~UntilPresent

\* C8: redefine_as_open_ended(), whatever bounds were set before, leaves both
\* starting_on and until absent and invitation_id and description unchanged; and
\* from then on the validity stays unbounded, and is_available() is true at every
\* instant, until the next successful redefine_as.
C8_OpenEndedStaysAvailable ==
    /\ [](inv_last.op = "redefine_as_open_ended" =>
              /\ Unbounded
              /\ Unwrap(invitation).invitation_id = Unwrap(inv_last.before).invitation_id
              /\ Unwrap(invitation).description = Unwrap(inv_last.before).description)
    /\ [][(Unbounded /\ ~(inv_last'.op = "redefine_as" /\ inv_last'.ret.ok))
              => Unbounded']_vars
    /\ []((Unbounded /\ inv_last.op = "is_available") => inv_last.ret = TRUE)

\* redefine_as_open_ended() has cleared bounds that were present
C8_Witness ==
    /\ inv_last.op = "redefine_as_open_ended"
    /\ IsSome(Unwrap(inv_last.before).starting_on)
    /\ IsSome(Unwrap(inv_last.before).until)
    /\ Unbounded

\* C10: in every state reached by redefine operations, is_identified_by(x) is
\* true exactly when x equals the invitation_id given at construction or the
\* description given at construction.
C10_IdentifiedByIdOrDescription ==
    inv_last.op = "is_identified_by" =>
        (inv_last.ret = TRUE <=>
            \/ inv_last.identifier = Unwrap(inv_args).invitation_id
            \/ inv_last.identifier = Unwrap(inv_args).description)

\* after a redefine_as, the description (which is not the id) identifies the Invitation
C10_Witness ==
    /\ inv_last.op = "is_identified_by"
    /\ StartPresent
    /\ inv_last.identifier = Unwrap(inv_args).description
    /\ inv_last.identifier # Unwrap(inv_args).invitation_id
    /\ inv_last.ret = TRUE

----------------------------------------------------------------------------
(* Claims about TenantId *)

\* the canonical text of a unique identifier: 8-4-4-4-12 hexadecimal digits
CanonicalUuidText(v) ==
    /\ Len(v) = 36
    /\ \A i \in {9, 14, 19, 24} : v[i] = "-"
    /\ \A i \in (1..36) \ {9, 14, 19, 24} :
           v[i] \in {"0", "1", "2", "3", "4", "5", "6", "7", "8", "9",
                     "a", "b", "c", "d", "e", "f", "A", "B", "C", "D", "E", "F"}

\* C5: TenantId::new(value) reports only the first violation, in the order
\* non-empty, length, grammar: an empty value fails with 'The value is required';
\* a non-empty value whose length is not 36 with 'The value must be 36 characters
\* long'; a 36-character value that is no unique identifier with 'The value as an
\* invalid format.'; any other value succeeds and value() returns it unchanged.
C5_TenantIdNewFirstViolation ==
    tid_last.op = "new" =>
        LET v == tid_last.value
            r == tid_last.ret
        IN  /\ Len(v) = 0 =>
                   ~r.ok /\ r.kind = "ArgumentError" /\ r.msg = "The value is required"
            /\ (Len(v) # 0 /\ Len(v) # 36) =>
                   /\ ~r.ok /\ r.kind = "ArgumentError"
                   /\ r.msg = "The value must be 36 characters long"
            /\ (Len(v) = 36 /\ ~CanonicalUuidText(v)) =>
                   /\ ~r.ok /\ r.kind = "ArgumentError"
                   /\ r.msg = "The value as an invalid format."
            /\ CanonicalUuidText(v) =>
                   /\ r.ok
                   /\ TenantId_value(r.val) = v
                   /\ tenant_id = Some(r.val)
            /\ ~r.ok => tenant_id = None

\* 32 hexadecimal digits, which Uuid::parse_str would accept, fail on the length
C5_Witness ==
    /\ tid_last.op = "new"
    /\ tid_last.value = LongValue
    /\ ~tid_last.ret.ok
    /\ tid_last.ret.msg = "The value must be 36 characters long"

\* C9: every value produced by TenantId::random() is accepted by TenantId::new:
\* for each generated id t, TenantId::new(t.value()) succeeds and returns a
\* TenantId equal to t.
C9_RandomRoundTrips ==
    (tid_last.op = "new" /\ tid_last.from = "random") =>
        /\ tid_last.ret.ok
        /\ tid_last.ret.val = Unwrap(tid_last.before)
        /\ TenantId_value(tid_last.ret.val) = TenantId_value(Unwrap(tid_last.before))

\* a generated id went through TenantId::new, and its version digit is 4
C9_Witness ==
    /\ tid_last.op = "new" /\ tid_last.from = "random"
    /\ tid_last.ret.ok
    /\ tid_last.value[15] = "4"
    /\ tenant_id = tid_last.before

\* C11 as stated: TenantId::new(s) fails with an Argument failure when the
\* length of s is outside [1,36], and when the length is within [1,36] and s does
\* not match the canonical grammar it fails with the Argument failure of the
\* grammar check (not that of the emptiness or length check).
C11_GrammarMessageWithinOneTo36 ==
    tid_last.op = "new" =>
        LET v == tid_last.value
            r == tid_last.ret
        IN  /\ Len(v) \notin 1..36 => (~r.ok /\ r.kind = "ArgumentError")
            /\ (Len(v) \in 1..36 /\ ~CanonicalUuidText(v)) =>
                   /\ ~r.ok /\ r.kind = "ArgumentError"
                   /\ r.msg = "The value as an invalid format."

\* C11 as amended: TenantId::new(s) fails with an Argument failure when the
\* length of s is not 36, carrying the message of the emptiness or of the length
\* check; when the length is exactly 36 and s does not match the canonical
\* grammar, it fails with the Argument failure of the grammar check.
C11_GrammarMessageOnlyAt36 ==
    tid_last.op = "new" =>
        LET v == tid_last.value
            r == tid_last.ret
        IN  /\ Len(v) # 36 =>
                   /\ ~r.ok /\ r.kind = "ArgumentError"
                   /\ r.msg \in {"The value is required",
                                 "The value must be 36 characters long"}
            /\ (Len(v) = 36 /\ ~CanonicalUuidText(v)) =>
                   /\ ~r.ok /\ r.kind = "ArgumentError"
                   /\ r.msg = "The value as an invalid format."

\* a value of 36 bytes with letters where the hyphens belong failed on the grammar
C11_Witness ==
    /\ tid_last.op = "new"
    /\ tid_last.value = InvalidValue
    /\ ~tid_last.ret.ok
    /\ tid_last.ret.msg = "The value as an invalid format."

----------------------------------------------------------------------------
(* Claims about Tenant *)

\* C4: Tenant::new succeeds exactly when name has length 1..100 and description
\* is absent or has length 0..100; the Tenant then holds the given tenant_id, name
\* and active flag, no invitations, and a description that is absent when none or
\* an empty string was supplied and the supplied text otherwise; otherwise it
\* returns the Argument failure of the first violated check, in the order name
\* non-empty, name length, description length, and no Tenant exists.
C4_TenantNewValidatesAndNormalizes ==
    tenant_last.op = "new" =>
        LET name == tenant_last.name
            d == tenant_last.description
            r == tenant_last.ret
        IN  /\ r.ok <=> (Len(name) \in 1..100 /\ (d = None \/ Len(Unwrap(d)) \in 0..100))
            /\ r.ok =>
                   /\ IsSome(tenant)
                   /\ Unwrap(tenant).tenant_id = tenant_last.tenant_id
                   /\ Unwrap(tenant).name = name
                   /\ Unwrap(tenant).active = tenant_last.active
                   /\ Unwrap(tenant).invitations = << >>
                   /\ Unwrap(tenant).description =
                          IF d = None \/ Len(Unwrap(d)) = 0 THEN None ELSE d
                   /\ Unwrap(tenant).description # Some(<< >>)
            /\ ~r.ok =>
                   /\ tenant = None
                   /\ r.kind = "ArgumentError"
                   /\ r.msg =
                          IF Len(name) = 0 THEN "The name is required"
                          ELSE IF Len(name) > 100
                               THEN "The name must be 100 characters or less"
                          ELSE "The description must be 100 characters or less"

\* an empty description was supplied and the Tenant has none
C4_Witness ==
    /\ tenant_last.op = "new"
    /\ tenant_last.description = Some(<< >>)
    /\ tenant_last.ret.ok
    /\ IsSome(tenant)
    /\ Unwrap(tenant).description = None

\* C7: after any sequence of activate() and deactivate() calls, active() is true
\* if the last call was activate, false if it was deactivate, and the constructor
\* argument if no call was made; repeating a call changes nothing, and no call
\* changes tenant_id, name, description or the invitations.
C7_ActiveIsLastCall ==
    /\ (tenant_last.op = "new" /\ tenant_last.ret.ok) =>
           Tenant_active(Unwrap(tenant)) = tenant_last.active
    /\ tenant_last.op \in {"activate", "deactivate"} =>
           LET t == Unwrap(tenant)
               b == Unwrap(tenant_last.before)
           IN  /\ Tenant_active(t) = (tenant_last.op = "activate")
               /\ t.tenant_id = b.tenant_id
               /\ t.name = b.name
               /\ t.description = b.description
               /\ t.invitations = b.invitations
               /\ Tenant_active(b) = (tenant_last.op = "activate") => t = b

\* deactivate() was called on a Tenant that was already inactive
C7_Witness ==
    /\ tenant_last.op = "deactivate"
    /\ ~Tenant_active(Unwrap(tenant_last.before))
    /\ ~Tenant_active(Unwrap(tenant))

----------------------------------------------------------------------------
(* Claims about the assertion layer *)

\* the condition of a check is violated (the table of the checks)
Violated(c) ==
    CASE c.macro = "assert_argument_equals" -> c.x # c.y
      [] c.macro = "assert_argument_not_equals" -> c.x = c.y
      [] c.macro = "assert_argument_false" -> c.b = TRUE
      [] c.macro \in {"assert_argument_true", "assert_true", "assert_state"} -> c.b = FALSE
      [] c.macro = "assert_not_state" -> c.b = TRUE
      [] c.macro = "assert_argument_length" /\ "y" \in DOMAIN c ->
             Len(c.s) < c.x \/ Len(c.s) > c.y
      [] c.macro = "assert_argument_length" /\ "y" \notin DOMAIN c -> Len(c.s) > c.x
      [] c.macro = "assert_argument_not_empty" -> Len(c.s) = 0
      [] c.macro = "assert_argument_range" -> c.x < c.y \/ c.x > c.z

IsStateCheck(c) == c.macro \in {"assert_state", "assert_not_state"}

\* C12: every check of the assertion layer whose condition is violated aborts the
\* enclosing operation at once with its typed failure, so that no statement after
\* it runs: an Argument failure for the argument checks, and for assert_state and
\* assert_not_state a State failure carrying the formatted message.
C12_ViolatedCheckAborts ==
    (check_last.op = "check" /\ Violated(check_last.check)) =>
        /\ ~check_last.ran_after
        /\ ~check_last.ret.ok
        /\ IF IsStateCheck(check_last.check)
           THEN /\ check_last.ret.kind = "StateError"
                /\ check_last.ret.msg = StateMessage
           ELSE check_last.ret.kind = "ArgumentError"

\* what holds of the code: the argument checks of iddd_common abort the operation
ArgumentChecksAbort ==
    (/\ check_last.op = "check" /\ check_last.crate = "iddd_common"
     /\ ~IsStateCheck(check_last.check) /\ Violated(check_last.check)) =>
        /\ ~check_last.ran_after
        /\ ~check_last.ret.ok
        /\ check_last.ret.kind = "ArgumentError"

\* what the code does: an operation guarded by a state check, or by any of the
\* earlier macros, runs to its end whatever the condition
StateChecksFallThrough ==
    (/\ check_last.op = "check"
     /\ (IsStateCheck(check_last.check) \/ check_last.crate = "common")) =>
        check_last.ran_after /\ check_last.ret.ok

====
